---- MODULE Spec2Model ----
(***************************************************************************)
(* A model of the motif scanning kernel of universalmotif,                 *)
(* src/src/scan_sequences.cpp: scan_sequences_cpp and the functions it     *)
(* calls (the alphabet encoder, deal_with_higher_k[_NA],                   *)
(* scan_single_seq[_NA], format_results, get_matches).                     *)
(*                                                                         *)
(* Numbers.  A double of the caller (a matrix entry, a threshold, a        *)
(* reported score) is modelled by the integer  x * RawUnit, so 10.0005 is  *)
(* 100005.  The program's int values (symbols, fixed-point scores) are     *)
(* integers.  A std::size_t expression is evaluated by SizeT.              *)
(***************************************************************************)
EXTENDS Integers, Sequences, FiniteSets, TLC

\* ------------------------------------------------------------------ bounds
\* longest raw sequence
MaxLen == 2
\* most positions (columns) of a score matrix
MaxW == 2
\* largest k
MaxK == 3

\* ------------------------------------------------------- program constants
\* the fixed-point factor of min_scores[i] * 1000 and tmp2 * 1000
SCALE == 1000
\* what scan_single_seq_NA adds for a sentinel symbol
NA_PENALTY == -999999

\* ------------------------------------------------------------- the inputs
\* how many model units make 1.0 of a caller's double
RawUnit == 10 ^ 4
\* the characters a raw sequence is made of; "N" is in no alphabet
RawChars == {"A", "C", "N"}
\* the alphabet of a call that honours the interface
DNA2 == <<"A", "C">>
\* the alphabet of the concrete scenarios
DNA4 == <<"A", "C", "G", "T">>

RECURSIVE Pow(_, _)
Pow(b, e) == IF e <= 0 THEN 1 ELSE b * Pow(b, e - 1)

Min(a, b) == IF a <= b THEN a ELSE b

\* every raw sequence of 1..n characters
Strings(n) == UNION {[1..l -> RawChars] : l \in 1..n}

\* the second sequence of a two-sequence batch: a clean one, and one with an
\* unrecognized character
Companions == {<<"A", "C", "A">>, <<"C", "N", "A">>}

\* the batches of raw sequences: one sequence, or one and a companion
Batches == {<<s>> : s \in Strings(MaxLen) \cup Companions}
             \cup {<<s, t>> : s \in Strings(MaxLen), t \in Companions}

\* the columns a caller's matrix has per position: |alphabet|^k (the caller
\* sizes the matrices for k); for a k that is not positive, |alphabet|
RowLen(alph, k) == IF k >= 1 THEN Pow(Len(alph), k) ELSE Len(alph)

\* a caller's score matrix of w positions: 10.0 at the favoured symbol of
\* each position, (f + p) mod R at position p, and 0.0 elsewhere
MotifMat(w, f, R) ==
  [p \in 1..w |-> [c \in 1..R |->
      IF R > 0 /\ c - 1 = (f + p - 1) % R THEN 10 * RawUnit ELSE 0]]

\* the score matrices a call is given: one, or one and a second of one
\* position
MotifLists(alph, k) ==
  LET R == RowLen(alph, k)
      one == {MotifMat(w, f, R) : w \in 1..MaxW, f \in {0, 1}}
  IN  {<<m>> : m \in one} \cup {<<m, MotifMat(1, 1, R)>> : m \in one}

\* the thresholds a caller gives: 0.0, and 10.0005, which is no multiple of
\* 0.001
ThrPool == {0, 10 * RawUnit + 5}

\* ------------------------------------------------------ numeric conversions
\* integer division that truncates toward zero (b > 0)
TruncDiv(a, b) == IF a >= 0 THEN a \div b ELSE -((-a) \div b)

\* a double times 1000 stored into an int: the fraction is dropped
ToFixed(x) == TruncDiv(x * SCALE, RawUnit)

\* an int score divided by 1000 into a double (scores2[i] /= 1000)
FromFixed(s) == s * (RawUnit \div SCALE)

\* A std::size_t result.  The arithmetic is modulo 2^64; TLC's integers are
\* 32 bits wide, so the wrapped value 2^64 + n of a negative n is stood for
\* by 2^30 + n, which like it exceeds every length and every index of the
\* model.
SizeWrap == 2 ^ 30
SizeT(n) == IF n < 0 THEN SizeWrap + n ELSE n

\* --------------------------------------------------------- alphabet encoder
RECURSIVE FirstMatch(_, _, _)
\* the loop over a: the 0-based index of the first alphabet character equal
\* to c, or -1 when none is
FirstMatch(alph, c, a) ==
  IF a > Len(alph) THEN -1
  ELSE IF alph[a] = c THEN a - 1
  ELSE FirstMatch(alph, c, a + 1)

\* the body of the first parallelFor for one sequence: seq_ints[i]
EncodeSeq(chars, alph) == [j \in 1..Len(chars) |-> FirstMatch(alph, chars[j], 1)]

\* na_index[i] after the same body: 1 when a sentinel was pushed
NaIndexOf(chars, alph) ==
  IF \E j \in 1..Len(chars) : FirstMatch(alph, chars[j], 1) = -1 THEN 1 ELSE 0

RECURSIVE SumSeq(_, _)
\* std::accumulate(na_index.begin(), na_index.end(), 0)
SumSeq(v, n) == IF n = 0 THEN 0 ELSE v[n] + SumSeq(v, n - 1)

\* ----------------------------------------------------- higher-order recoder
\* A recoder or scorer result is [val, oob]: the value the loop built, and
\* whether the loop read or wrote outside a buffer (undefined behaviour).
RECURSIVE KmerNA_first(_, _, _, _, _, _)
\* KmerNA with the sentinel test on the first symbol of the k-mer only
KmerNA_first(s, j, k, n, b, tmp) ==
  IF b >= k THEN [ok |-> TRUE, v |-> tmp]
  ELSE IF j + b >= Len(s) THEN [ok |-> FALSE, v |-> 0]
  ELSE IF b = 0 /\ s[j + b + 1] < 0 THEN [ok |-> TRUE, v |-> -1]
  ELSE KmerNA_first(s, j, k, n, b + 1, tmp + s[j + b + 1] * Pow(n, k - b - 1))

RECURSIVE KmerNA(_, _, _, _, _, _)
\* the loop over b of deal_with_higher_k_NA at position j (0-based), with the
\* break on a sentinel; [ok, v], ok FALSE for a read past the stream
KmerNA(s, j, k, n, b, tmp) ==
  IF b >= k THEN [ok |-> TRUE, v |-> tmp]
  ELSE IF j + b >= Len(s) THEN [ok |-> FALSE, v |-> 0]
  ELSE IF s[j + b + 1] < 0 THEN [ok |-> TRUE, v |-> -1]
  ELSE KmerNA(s, j, k, n, b + 1, tmp + s[j + b + 1] * Pow(n, k - b - 1))

RECURSIVE KmerStrict(_, _, _, _, _, _)
\* the loop over b of deal_with_higher_k at position j
KmerStrict(s, j, k, n, b, tmp) ==
  IF b >= k THEN [ok |-> TRUE, v |-> tmp]
  ELSE IF j + b >= Len(s) THEN [ok |-> FALSE, v |-> 0]
  ELSE KmerStrict(s, j, k, n, b + 1, tmp + s[j + b + 1] * Pow(n, k - b - 1))

RECURSIVE RecodeLoopNA(_, _, _, _, _)
\* the loop over j, in place: position j is overwritten before j + 1 is read
RecodeLoopNA(s, j, bound, k, n) ==
  IF j >= bound THEN [val |-> s, oob |-> FALSE]
  ELSE LET c == KmerNA(s, j, k, n, 0, 0)
       IN  IF ~c.ok \/ j >= Len(s) THEN [val |-> s, oob |-> TRUE]
           ELSE RecodeLoopNA([s EXCEPT ![j + 1] = c.v], j + 1, bound, k, n)

RECURSIVE RecodeLoopStrict(_, _, _, _, _)
RecodeLoopStrict(s, j, bound, k, n) ==
  IF j >= bound THEN [val |-> s, oob |-> FALSE]
  ELSE LET c == KmerStrict(s, j, k, n, 0, 0)
       IN  IF ~c.ok \/ j >= Len(s) THEN [val |-> s, oob |-> TRUE]
           ELSE RecodeLoopStrict([s EXCEPT ![j + 1] = c.v], j + 1, bound, k, n)

\* deal_with_higher_k_NA on one stream: j < seq_ints[i].size() - k + 1
RecodeNA(s, k, n) == RecodeLoopNA(s, 0, SizeT(Len(s) - k + 1), k, n)

\* deal_with_higher_k on one stream
RecodeStrict(s, k, n) == RecodeLoopStrict(s, 0, SizeT(Len(s) - k + 1), k, n)

\* deal_with_higher_k_NA: every stream of the list
deal_with_higher_k_NA(ints, k, n) == [i \in 1..Len(ints) |-> RecodeNA(ints[i], k, n)]

\* deal_with_higher_k: every stream of the list
deal_with_higher_k(ints, k, n) == [i \in 1..Len(ints) |-> RecodeStrict(ints[i], k, n)]

\* ------------------------------------------------------------ window scorer
RECURSIVE WindowNA_zero(_, _, _, _, _)
\* WindowNA with sequence[i + j] <= 0 for the sentinel test
WindowNA_zero(motif, s, i, j, tmp) ==
  IF j >= Len(motif) THEN [ok |-> TRUE, v |-> tmp]
  ELSE IF i + j >= Len(s) THEN [ok |-> FALSE, v |-> 0]
  ELSE LET sym == s[i + j + 1]
       IN  IF sym <= 0 THEN WindowNA_zero(motif, s, i, j + 1, tmp + NA_PENALTY)
           ELSE IF sym >= Len(motif[j + 1]) THEN [ok |-> FALSE, v |-> 0]
           ELSE WindowNA_zero(motif, s, i, j + 1, tmp + motif[j + 1][sym + 1])

RECURSIVE WindowNA(_, _, _, _, _)
\* the loop over j of scan_single_seq_NA for the window at i: [ok, v]
WindowNA(motif, s, i, j, tmp) ==
  IF j >= Len(motif) THEN [ok |-> TRUE, v |-> tmp]
  ELSE IF i + j >= Len(s) THEN [ok |-> FALSE, v |-> 0]
  ELSE LET sym == s[i + j + 1]
       IN  IF sym < 0 THEN WindowNA(motif, s, i, j + 1, tmp + NA_PENALTY)
           ELSE IF sym >= Len(motif[j + 1]) THEN [ok |-> FALSE, v |-> 0]
           ELSE WindowNA(motif, s, i, j + 1, tmp + motif[j + 1][sym + 1])

RECURSIVE WindowStrict(_, _, _, _, _)
\* the loop over j of scan_single_seq for the window at i
WindowStrict(motif, s, i, j, tmp) ==
  IF j >= Len(motif) THEN [ok |-> TRUE, v |-> tmp]
  ELSE IF i + j >= Len(s) THEN [ok |-> FALSE, v |-> 0]
  ELSE LET sym == s[i + j + 1]
       IN  IF sym < 0 \/ sym >= Len(motif[j + 1]) THEN [ok |-> FALSE, v |-> 0]
           ELSE WindowStrict(motif, s, i, j + 1, tmp + motif[j + 1][sym + 1])

RECURSIVE ScanLoopNA(_, _, _, _, _)
\* the loop over i: result.push_back(tmp) per window, until the bound or the
\* first access outside a buffer
ScanLoopNA(motif, s, i, bound, acc) ==
  IF i >= bound THEN [val |-> acc, oob |-> FALSE]
  ELSE LET w == WindowNA(motif, s, i, 0, 0)
       IN  IF ~w.ok THEN [val |-> acc, oob |-> TRUE]
           ELSE ScanLoopNA(motif, s, i + 1, bound, Append(acc, w.v))

RECURSIVE ScanLoopStrict(_, _, _, _, _)
ScanLoopStrict(motif, s, i, bound, acc) ==
  IF i >= bound THEN [val |-> acc, oob |-> FALSE]
  ELSE LET w == WindowStrict(motif, s, i, 0, 0)
       IN  IF ~w.ok THEN [val |-> acc, oob |-> TRUE]
           ELSE ScanLoopStrict(motif, s, i + 1, bound, Append(acc, w.v))

\* ScanBound without its last + 1
ScanBound_short(motif, s, k) == SizeT(Len(s) - k + 1 - Len(motif))

\* the loop bound of both scorers: sequence.size() - k + 1 - motif.size() + 1
ScanBound(motif, s, k) == SizeT(Len(s) - k + 1 - Len(motif) + 1)

scan_single_seq_NA(motif, s, k) == ScanLoopNA(motif, s, 0, ScanBound(motif, s, k), <<>>)

scan_single_seq(motif, s, k) == ScanLoopStrict(motif, s, 0, ScanBound(motif, s, k), <<>>)

\* ------------------------------------------------------------ hit extractor
RECURSIVE FormatWalk(_, _, _, _, _, _, _)
\* the three loops of format_results, 1-based here: motif i, sequence j,
\* position b; a row is pushed when out_pre[i][j][b] >= scores[i]
FormatWalk(out_pre, scores, motifs, i, j, b, acc) ==
  IF i > Len(out_pre) THEN acc
  ELSE IF j > Len(out_pre[i]) THEN FormatWalk(out_pre, scores, motifs, i + 1, 1, 1, acc)
  ELSE IF b > Len(out_pre[i][j]) THEN FormatWalk(out_pre, scores, motifs, i, j + 1, 1, acc)
  ELSE FormatWalk(out_pre, scores, motifs, i, j, b + 1,
         IF out_pre[i][j][b] >= scores[i]
         THEN Append(acc, [motif    |-> i,
                           sequence |-> j,
                           start    |-> b,
                           stop     |-> (b - 1) + Len(motifs[i]),
                           score    |-> out_pre[i][j][b]])
         ELSE acc)

\* format_results: res, here one record per row instead of five columns
format_results(out_pre, scores, motifs) == FormatWalk(out_pre, scores, motifs, 1, 1, 1, <<>>)

\* std::string::substr(pos, n): at most n characters from pos, cut at the end
\* of the string
Substr(str, pos, n) == SubSeq(str, pos + 1, Min(pos + n, Len(str)))

\* get_matches: the raw slice of every row
get_matches(rows, seqs, motifs) ==
  [i \in 1..Len(rows) |->
     Substr(seqs[rows[i].sequence], rows[i].start - 1, Len(motifs[rows[i].motif]))]

\* -------------------------------------------------------------------- state
VARIABLES
  alph,         \* the call's alphabet, a sequence of characters
  k,            \* the call's k
  seq_vecs,     \* the call's raw sequences
  score_mats,   \* the call's score matrices, [position][symbol], doubles
  min_scores,   \* the call's thresholds, doubles
  warnNA,       \* the call's warnNA
  pc,           \* where scan_sequences_cpp is
  min_scores2,  \* the thresholds in fixed point
  score2_mats,  \* the matrices in fixed point
  seq_ints,     \* the encoded (then recoded) streams
  na_index,     \* per sequence, 1 when it holds an unrecognized character
  encSt,        \* per sequence, its encoding unit: idle, run or done
  use_na_fun,   \* the sentinel flag
  notices,      \* how many times Rcpp::warning was called
  recoded,      \* the recoder variant that ran: none, NA or strict
  out,          \* out[motif][sequence], the score vectors
  scoreSt,      \* per motif, its scoring unit: idle, run or done
  scoredBy,     \* per motif, the scorer variant its unit ran: none, NA, strict
  res,          \* the rows of format_results
  table         \* the returned data frame, one record per row

inputs == <<alph, k, seq_vecs, score_mats, min_scores, warnNA>>
vars == <<alph, k, seq_vecs, score_mats, min_scores, warnNA, pc, min_scores2,
          score2_mats, seq_ints, na_index, encSt, use_na_fun, notices, recoded,
          out, scoreSt, scoredBy, res, table>>

\* the state of a call that has not run a line yet
Fresh ==
  /\ pc = "entry"
  /\ min_scores2 = <<>>
  /\ score2_mats = <<>>
  /\ seq_ints = <<>>
  /\ na_index = <<>>
  /\ encSt = <<>>
  /\ use_na_fun = FALSE
  /\ notices = 0
  /\ recoded = "none"
  /\ out = <<>>
  /\ scoreSt = <<>>
  /\ scoredBy = <<>>
  /\ res = <<>>
  /\ table = <<>>

\* the two concrete scenarios: ACGTACGT and ACGNACGT against the motif that
\* favours ACGT, threshold 40
Scenario ==
  /\ alph = DNA4
  /\ k = 1
  /\ seq_vecs \in {<< <<"A", "C", "G", "T", "A", "C", "G", "T">> >>,
                   << <<"A", "C", "G", "N", "A", "C", "G", "T">> >>}
  /\ score_mats = <<MotifMat(4, 0, 4)>>
  /\ min_scores = <<40 * RawUnit>>
  /\ warnNA = TRUE

\* a call that honours the interface: k >= 1, a non-empty duplicate-free
\* alphabet, matrices sized for k, one threshold per matrix
Bounded ==
  /\ alph = DNA2
  /\ k \in 1..MaxK
  /\ seq_vecs \in Batches
  /\ score_mats \in MotifLists(alph, k)
  /\ min_scores \in [1..Len(score_mats) -> ThrPool]
  /\ warnNA \in BOOLEAN

Init == (Bounded \/ Scenario) /\ Fresh

\* any call the signature admits: k may be 0, the alphabet empty, and the
\* thresholds one fewer or one more than the matrices
AnyCall ==
  /\ alph \in {<<>>, DNA2}
  /\ k \in 0..MaxK
  /\ seq_vecs \in Batches
  /\ score_mats \in MotifLists(alph, k)
  /\ min_scores \in UNION {[1..n -> ThrPool] :
                             n \in (Len(score_mats) - 1)..(Len(score_mats) + 1)}
  /\ warnNA \in BOOLEAN

InitAnyCall == AnyCall /\ Fresh

\* ------------------------------------------------------------------ actions
\* LengthsOk with <= for <
LengthsOk_strict ==
  \A i \in 1..Len(score_mats) : \A j \in 1..Len(seq_vecs) :
     ~(Len(seq_vecs[j]) <= Len(score_mats[i]))

\* every sequence is at least as long as every matrix has columns
LengthsOk ==
  \A i \in 1..Len(score_mats) : \A j \in 1..Len(seq_vecs) :
     ~(Len(seq_vecs[j]) < Len(score_mats[i]))

\* scan_sequences_cpp up to the call of scan_sequences_cpp_internal, and the
\* declarations that open scan_sequences_cpp_internal
Enter ==
  /\ pc = "entry"
  /\ min_scores2' = [i \in 1..Len(min_scores) |-> ToFixed(min_scores[i])]
  /\ score2_mats' = [i \in 1..Len(score_mats) |->
                      [p \in 1..Len(score_mats[i]) |->
                        [c \in 1..Len(score_mats[i][p]) |-> ToFixed(score_mats[i][p][c])]]]
  /\ IF LengthsOk
     THEN /\ pc' = "encode"
          /\ seq_ints' = [i \in 1..Len(seq_vecs) |-> <<>>]
          /\ na_index' = [i \in 1..Len(seq_vecs) |-> 0]
          /\ encSt' = [i \in 1..Len(seq_vecs) |-> "idle"]
     ELSE /\ pc' = "stopped"
          /\ UNCHANGED <<seq_ints, na_index, encSt>>
  /\ UNCHANGED <<inputs, use_na_fun, notices, recoded, out, scoreSt, scoredBy, res, table>>

\* a pool thread takes the encoding unit of sequence i
EncodeStart(i) ==
  /\ pc = "encode"
  /\ encSt[i] = "idle"
  /\ encSt' = [encSt EXCEPT ![i] = "run"]
  /\ UNCHANGED <<inputs, pc, min_scores2, score2_mats, seq_ints, na_index, use_na_fun,
                 notices, recoded, out, scoreSt, scoredBy, res, table>>

\* the unit of sequence i runs: it writes seq_ints[i] and na_index[i] only
EncodeFinish(i) ==
  /\ pc = "encode"
  /\ encSt[i] = "run"
  /\ seq_ints' = [seq_ints EXCEPT ![i] = EncodeSeq(seq_vecs[i], alph)]
  /\ na_index' = [na_index EXCEPT ![i] = NaIndexOf(seq_vecs[i], alph)]
  /\ encSt' = [encSt EXCEPT ![i] = "done"]
  /\ UNCHANGED <<inputs, pc, min_scores2, score2_mats, use_na_fun, notices, recoded,
                 out, scoreSt, scoredBy, res, table>>

\* SetFlag without the wait for the encoding units
SetFlag_early ==
  /\ pc = "encode"
  /\ \E i \in 1..Len(encSt) : encSt[i] = "done"
  /\ use_na_fun' = (SumSeq(na_index, Len(na_index)) > 0)
  /\ notices' = IF use_na_fun' /\ warnNA THEN notices + 1 ELSE notices
  /\ pc' = "recode"
  /\ UNCHANGED <<inputs, min_scores2, score2_mats, seq_ints, na_index, encSt, recoded,
                 out, scoreSt, scoredBy, res, table>>

\* parallelFor has returned: the flag and the notice
SetFlag ==
  /\ pc = "encode"
  /\ \A i \in 1..Len(encSt) : encSt[i] = "done"
  /\ use_na_fun' = (SumSeq(na_index, Len(na_index)) > 0)
  /\ notices' = IF use_na_fun' /\ warnNA THEN notices + 1 ELSE notices
  /\ pc' = "recode"
  /\ UNCHANGED <<inputs, min_scores2, score2_mats, seq_ints, na_index, encSt, recoded,
                 out, scoreSt, scoredBy, res, table>>

\* the recoding for k > 1 and the declaration of out.  A recoder loop that
\* leaves its buffer writes over the heap until the process dies.
Recode ==
  /\ pc = "recode"
  /\ LET r == IF use_na_fun THEN deal_with_higher_k_NA(seq_ints, k, Len(alph))
                            ELSE deal_with_higher_k(seq_ints, k, Len(alph))
     IN  IF k > 1
         THEN /\ recoded' = IF use_na_fun THEN "NA" ELSE "strict"
              /\ IF \E i \in 1..Len(r) : r[i].oob
                 THEN /\ pc' = "crashed"
                      /\ UNCHANGED <<seq_ints, out, scoreSt, scoredBy>>
                 ELSE /\ pc' = "score"
                      /\ seq_ints' = [i \in 1..Len(r) |-> r[i].val]
                      /\ out' = [i \in 1..Len(score2_mats) |-> <<>>]
                      /\ scoreSt' = [i \in 1..Len(score2_mats) |-> "idle"]
                      /\ scoredBy' = [i \in 1..Len(score2_mats) |-> "none"]
         ELSE /\ pc' = "score"
              /\ out' = [i \in 1..Len(score2_mats) |-> <<>>]
              /\ scoreSt' = [i \in 1..Len(score2_mats) |-> "idle"]
              /\ scoredBy' = [i \in 1..Len(score2_mats) |-> "none"]
              /\ UNCHANGED <<seq_ints, recoded>>
  /\ UNCHANGED <<inputs, min_scores2, score2_mats, na_index, encSt, use_na_fun,
                 notices, res, table>>

\* a pool thread takes the scoring unit of motif i
ScoreStart(i) ==
  /\ pc = "score"
  /\ scoreSt[i] = "idle"
  /\ scoreSt' = [scoreSt EXCEPT ![i] = "run"]
  /\ UNCHANGED <<inputs, pc, min_scores2, score2_mats, seq_ints, na_index, encSt,
                 use_na_fun, notices, recoded, out, scoredBy, res, table>>

\* what an int read outside a buffer may hold
Garbage == {NA_PENALTY, 0, 40 * SCALE}

\* the score vectors of motif i against every stream, by the variant the flag
\* selects
ScanAll(i) ==
  [j \in 1..Len(seq_ints) |->
     IF use_na_fun THEN scan_single_seq_NA(score2_mats[i], seq_ints[j], k)
                   ELSE scan_single_seq(score2_mats[i], seq_ints[j], k)]

\* the loop bound of motif i against stream j wrapped around
Wrapped(i, j) == Len(seq_ints[j]) - k + 1 - Len(score2_mats[i]) + 1 < 0

\* How the unit of motif i can end.  Without an access outside a buffer it
\* ends well.  With a wrapped bound the loop has to push more elements than a
\* vector can hold, so it never returns: the process dies on a read or a
\* write, or push_back throws and parallelFor rethrows.  With a bound that did
\* not wrap the windows past the stream hold whatever the heap holds, or the
\* process dies.
ScoreOutcomes(i) ==
  LET r == ScanAll(i)
  IN  IF \A j \in 1..Len(r) : ~r[j].oob THEN {[kind |-> "ok", g |-> 0]}
      ELSE IF \E j \in 1..Len(r) : r[j].oob /\ Wrapped(i, j)
      THEN {[kind |-> "crashed", g |-> 0], [kind |-> "error", g |-> 0]}
      ELSE {[kind |-> "crashed", g |-> 0]} \cup {[kind |-> "garbage", g |-> g] : g \in Garbage}

\* a score vector with its windows past the stream filled in
Filled(r, bound, g) == r.val \o [x \in 1..(bound - Len(r.val)) |-> g]

\* OutSlot by order of completion: the next slot no unit has filled
OutSlot_completion(i) == Cardinality({m \in 1..Len(scoreSt) : scoreSt[m] = "done"}) + 1

\* the slot of out the unit of motif i writes: out[i]
OutSlot(i) == i

\* the unit of motif i runs: it writes out[i] only
ScoreFinish(i) ==
  /\ pc = "score"
  /\ scoreSt[i] = "run"
  /\ scoredBy' = [scoredBy EXCEPT ![i] = IF use_na_fun THEN "NA" ELSE "strict"]
  /\ \E oc \in ScoreOutcomes(i) :
       IF oc.kind \in {"crashed", "error"}
       THEN /\ pc' = oc.kind
            /\ UNCHANGED <<out, scoreSt>>
       ELSE /\ out' = [out EXCEPT ![OutSlot(i)] =
                        [j \in 1..Len(seq_ints) |->
                           Filled(ScanAll(i)[j], ScanBound(score2_mats[i], seq_ints[j], k), oc.g)]]
            /\ scoreSt' = [scoreSt EXCEPT ![i] = "done"]
            /\ pc' = pc
  /\ UNCHANGED <<inputs, min_scores2, score2_mats, seq_ints, na_index, encSt,
                 use_na_fun, notices, recoded, res, table>>

\* scores[i] is read for motif i when one of its vectors has an element
ReadsThreshold(i) == \E j \in 1..Len(out[i]) : out[i][j] # <<>>

\* How format_results can end: a threshold read past min_scores2 holds
\* whatever the heap holds, or the process dies.
FormatOutcomes ==
  IF \A i \in 1..Len(out) : ReadsThreshold(i) => i <= Len(min_scores2)
  THEN {[kind |-> "ok", g |-> 0]}
  ELSE {[kind |-> "crashed", g |-> 0]} \cup {[kind |-> "garbage", g |-> g] : g \in Garbage}

\* the thresholds format_results reads, one per motif
Padded(scores, n, g) == [i \in 1..n |-> IF i <= Len(scores) THEN scores[i] ELSE g]

\* the second parallelFor has returned; format_results
Format ==
  /\ pc = "score"
  /\ \A i \in 1..Len(scoreSt) : scoreSt[i] = "done"
  /\ \E oc \in FormatOutcomes :
       IF oc.kind = "crashed"
       THEN /\ pc' = "crashed"
            /\ res' = res
       ELSE /\ pc' = "matches"
            /\ res' = format_results(out, Padded(min_scores2, Len(out), oc.g), score2_mats)
  /\ UNCHANGED <<inputs, min_scores2, score2_mats, seq_ints, na_index, encSt,
                 use_na_fun, notices, recoded, out, scoreSt, scoredBy, table>>

\* the rescaled scores, get_matches and the data frame
Return ==
  /\ pc = "matches"
  /\ LET matches == get_matches(res, seq_vecs, score2_mats)
     IN  table' = [i \in 1..Len(res) |->
                     [motif    |-> res[i].motif,
                      sequence |-> res[i].sequence,
                      start    |-> res[i].start,
                      stop     |-> res[i].stop,
                      score    |-> FromFixed(res[i].score),
                      match    |-> matches[i]]]
  /\ pc' = "returned"
  /\ UNCHANGED <<inputs, min_scores2, score2_mats, seq_ints, na_index, encSt,
                 use_na_fun, notices, recoded, out, scoreSt, scoredBy, res>>

Next ==
  \/ Enter
  \/ \E i \in 1..Len(encSt) : EncodeStart(i)
  \/ \E i \in 1..Len(encSt) : EncodeFinish(i)
  \/ SetFlag
  \/ Recode
  \/ \E i \in 1..Len(scoreSt) : ScoreStart(i)
  \/ \E i \in 1..Len(scoreSt) : ScoreFinish(i)
  \/ Format
  \/ Return

Spec == Init /\ [][Next]_vars

\* the same program on any call the signature admits
SpecAnyCall == InitAnyCall /\ [][Next]_vars

\* ---------------------------------------------- what the claims speak about
Motifs == 1..Len(score_mats)
Seqs == 1..Len(seq_vecs)

\* c is in no position of the alphabet
Unrecognized(c) == \A a \in 1..Len(alph) : alph[a] # c

\* sequence j holds no unrecognized character
CleanSeq(j) == \A p \in 1..Len(seq_vecs[j]) : ~Unrecognized(seq_vecs[j][p])

\* at least one character of at least one sequence is outside the alphabet
AnyUnrecognized == \E j \in Seqs : ~CleanSeq(j)

\* the raw characters one window of motif i spans: a matrix of W positions
\* over k-mers covers W + k - 1 characters
RawWidth(i) == Len(score_mats[i]) + k - 1

\* the window of motif i at 1-based start b of sequence j spans an
\* unrecognized character
DirtyWindow(i, j, b) ==
  \E p \in b..(b + RawWidth(i) - 1) : p <= Len(seq_vecs[j]) /\ Unrecognized(seq_vecs[j][p])

\* the windows of motif i that fit into sequence j, by their 1-based start
Windows(i, j) == 1..(Len(seq_vecs[j]) - RawWidth(i) + 1)

\* the 0-based alphabet index of a recognized character
IndexOf(c) == (CHOOSE a \in 1..Len(alph) : alph[a] = c) - 1

RECURSIVE KmerValue(_, _, _)
\* the composite symbol of the t characters of raw that end at position e
KmerValue(raw, e, t) ==
  IF t = 0 THEN 0 ELSE IndexOf(raw[e]) + Len(alph) * KmerValue(raw, e - 1, t - 1)

RECURSIVE WindowScore(_, _, _, _)
\* the fixed-point score of the first w positions of motif i on the clean
\* window at start b of sequence j, read off the raw characters
WindowScore(i, j, b, w) ==
  IF w = 0 THEN 0
  ELSE ToFixed(score_mats[i][w][KmerValue(seq_vecs[j], b + w - 1 + k - 1, k) + 1])
         + WindowScore(i, j, b, w - 1)

\* the largest fixed-point entry of matrix i
MaxEntry(i) ==
  CHOOSE m \in {ToFixed(score_mats[i][p][c]) :
                  p \in 1..Len(score_mats[i]), c \in 1..RowLen(alph, k)} :
    \A p \in 1..Len(score_mats[i]) : \A c \in 1..RowLen(alph, k) :
       ToFixed(score_mats[i][p][c]) <= m

\* the unit of motif i has written its score vectors
Scored(i) == i \in 1..Len(scoreSt) /\ scoreSt[i] = "done"

\* ------------------------------------------------------------------- claims
\* the streams are final: the recoding is over
StreamsReady == pc \in {"score", "matches", "returned"}

\* C1 as stated: for every k >= 1, a motif of W positions and a sequence of
\* length L >= W give a score vector of exactly L - W + 1 entries.
C1_AsStated ==
  \A i \in Motifs : Scored(i) =>
    \A j \in Seqs : Len(out[i][j]) = Len(seq_vecs[j]) - Len(score_mats[i]) + 1

\* C1 amended: for every k >= 1, a motif of W positions and a stream of
\* length L with L - (k - 1) - W + 1 >= 0 give a score vector of exactly
\* L - (k - 1) - W + 1 entries, from scan_single_seq_NA on every stream, from
\* scan_single_seq on every stream without a sentinel, and in out[i][j].
C1_WindowCount ==
  StreamsReady =>
    \A i \in Motifs : \A j \in Seqs :
      LET n == Len(seq_vecs[j]) - (k - 1) - Len(score_mats[i]) + 1
          na == scan_single_seq_NA(score2_mats[i], seq_ints[j], k)
          st == scan_single_seq(score2_mats[i], seq_ints[j], k)
      IN  n >= 0 =>
            /\ ~na.oob /\ Len(na.val) = n
            /\ CleanSeq(j) => ~st.oob /\ Len(st.val) = n
            /\ Scored(i) => Len(out[i][j]) = n

\* C1's case: k = 2 and a score vector of two windows
C1_Witness == \E i \in Motifs : \E j \in Seqs : Scored(i) /\ k = 2 /\ Len(out[i][j]) = 2

\* some sequence is shorter than some motif has positions
AnyShort == \E i \in Motifs : \E j \in Seqs : Len(seq_vecs[j]) < Len(score_mats[i])

\* C3: when a sequence is shorter than a motif's width (its number of
\* positions) the call stops with the fatal error before any encoding or
\* scoring unit is dispatched and returns no row; when none is, the error is
\* never raised.
C3_ShortSequenceIsFatal ==
  /\ AnyShort => /\ pc \in {"entry", "stopped"}
                 /\ encSt = <<>> /\ scoreSt = <<>>
                 /\ seq_ints = <<>> /\ out = <<>> /\ res = <<>> /\ table = <<>>
  /\ ~AnyShort => pc # "stopped"

\* C3's case: the call has stopped on a short sequence
C3_Witness == pc = "stopped" /\ AnyShort

\* C9 as stated: once the length check has passed no unit of work fails, for
\* every k >= 1: no loop bound of the recoder or of a scorer is negative
\* before its conversion to size_t, and no loop leaves its buffer.
C9_AsStated ==
  pc \notin {"entry", "stopped"} =>
    /\ pc \notin {"crashed", "error"}
    /\ \A j \in Seqs : k > 1 => Len(seq_vecs[j]) - k + 1 >= 0
    /\ \A i \in Motifs : \A j \in Seqs :
         Len(seq_vecs[j]) - k + 1 - Len(score_mats[i]) + 1 >= 0

\* the run of the call on one thread, read off the inputs: the stream of
\* sequence j
RefStream(j) ==
  LET e == EncodeSeq(seq_vecs[j], alph)
  IN  IF k > 1
      THEN IF AnyUnrecognized THEN RecodeNA(e, k, Len(alph)).val
                              ELSE RecodeStrict(e, k, Len(alph)).val
      ELSE e

\* matrix i in fixed point
RefMat(i) ==
  [p \in 1..Len(score_mats[i]) |->
     [c \in 1..Len(score_mats[i][p]) |-> ToFixed(score_mats[i][p][c])]]

\* the score vector of motif i on sequence j
RefScores(i, j) ==
  IF AnyUnrecognized THEN scan_single_seq_NA(RefMat(i), RefStream(j), k).val
                     ELSE scan_single_seq(RefMat(i), RefStream(j), k).val

\* the (motif, sequence, start) of the windows that meet their threshold
RefHits ==
  {h \in UNION {{<<i, j, b>> : b \in 1..Len(RefScores(i, j))} : i \in Motifs, j \in Seqs} :
     RefScores(h[1], h[2])[h[3]] >= ToFixed(min_scores[h[1]])}

Key(r) == <<r.motif, r.sequence, r.start>>

\* a comes before b by (motif, sequence, start)
LexLess(a, b) ==
  \/ a[1] < b[1]
  \/ a[1] = b[1] /\ a[2] < b[2]
  \/ a[1] = b[1] /\ a[2] = b[2] /\ a[3] < b[3]

\* C2: whatever the order in which the encoding and the scoring units start
\* and finish, the returned table is the one the inputs determine: its rows
\* are strictly ascending by (motif, sequence, start), so no two share a
\* triple; they are the windows that meet their motif's threshold; each has
\* the stop, score and match of its window.  On the way a unit writes its
\* own slot only: the slot of a unit that is not done is as declared, the
\* slot of a unit that is done holds what the inputs determine.
C2_TableIsDetermined ==
  /\ pc = "encode" =>
       \A j \in Seqs :
         IF encSt[j] = "done"
         THEN seq_ints[j] = EncodeSeq(seq_vecs[j], alph)
                /\ na_index[j] = NaIndexOf(seq_vecs[j], alph)
         ELSE seq_ints[j] = <<>> /\ na_index[j] = 0
  /\ pc = "score" =>
       \A i \in Motifs :
         IF scoreSt[i] = "done"
         THEN out[i] = [j \in Seqs |-> RefScores(i, j)]
         ELSE out[i] = <<>>
  /\ pc = "returned" =>
    /\ \A r \in 1..(Len(table) - 1) : LexLess(Key(table[r]), Key(table[r + 1]))
    /\ {Key(table[r]) : r \in 1..Len(table)} = RefHits
    /\ \A r \in 1..Len(table) :
         LET t == table[r]
         IN  /\ t.score = FromFixed(RefScores(t.motif, t.sequence)[t.start])
             /\ t.stop = t.start - 1 + Len(score_mats[t.motif])
             /\ t.match = Substr(seq_vecs[t.sequence], t.start - 1, Len(score_mats[t.motif]))

\* C2's case: a table with rows of two motifs, of two sequences and of two
\* starts of one (motif, sequence) pair
C2_Witness ==
  /\ pc = "returned"
  /\ \E a, b \in 1..Len(table) :
       /\ table[a].motif = 2 /\ table[a].sequence = 2 /\ table[a].start = 2
       /\ table[b].motif = 2 /\ table[b].sequence = 2 /\ table[b].start = 1
  /\ \E c \in 1..Len(table) : table[c].motif = 1 /\ table[c].sequence = 1

\* C5 as stated: for every k >= 1 every row has stop - start + 1 equal to the
\* motif's width in raw characters, and its match is the raw slice of that
\* width from start - 1, of length stop - start + 1.
C5_AsStated ==
  pc = "returned" =>
    \A r \in 1..Len(table) :
      LET t == table[r]
      IN  /\ t.stop - t.start + 1 = RawWidth(t.motif)
          /\ t.match = SubSeq(seq_vecs[t.sequence], t.start, t.start - 1 + RawWidth(t.motif))
          /\ Len(t.match) = t.stop - t.start + 1

\* C6 as stated: every row's reported score is at least its motif's threshold
\* in the caller's units, and every window whose rescaled score is at least
\* the threshold is a row.
C6_AsStated ==
  pc = "returned" =>
    /\ \A r \in 1..Len(table) : table[r].score >= min_scores[table[r].motif]
    /\ \A i \in Motifs : \A j \in Seqs : \A b \in 1..Len(out[i][j]) :
         FromFixed(out[i][j][b]) >= min_scores[i] =>
           \E r \in 1..Len(table) : Key(table[r]) = <<i, j, b>>

\* C7: on the sentinel-aware path, for every k >= 1, a window whose raw span
\* holds an unrecognized character scores at most (W - 1) * M - 999999, M the
\* largest entry of the matrix, and is no row when that is below the
\* threshold; a window without one scores the sum of its entries; ACGNACGT
\* against the ACGT motif with threshold 40 gives the one hit at start 5 with
\* score 40.
C7_DirtyWindowsExcluded ==
  use_na_fun =>
    /\ \A i \in Motifs : Scored(i) =>
         \A j \in Seqs : \A b \in 1..Len(out[i][j]) :
           IF DirtyWindow(i, j, b)
           THEN out[i][j][b] <= (Len(score_mats[i]) - 1) * MaxEntry(i) + NA_PENALTY
           ELSE out[i][j][b] = WindowScore(i, j, b, Len(score_mats[i]))
    /\ pc = "returned" =>
         \A r \in 1..Len(table) :
           (Len(score_mats[table[r].motif]) - 1) * MaxEntry(table[r].motif) + NA_PENALTY
               < min_scores2[table[r].motif]
             => ~DirtyWindow(table[r].motif, table[r].sequence, table[r].start)
    /\ pc = "returned" /\ seq_vecs = << <<"A", "C", "G", "N", "A", "C", "G", "T">> >> =>
         table = << [motif |-> 1, sequence |-> 1, start |-> 5, stop |-> 8,
                     score |-> 40 * RawUnit, match |-> <<"A", "C", "G", "T">>] >>

\* C7's case: k = 2, a returned table with a row, and a window over an
\* unrecognized character that was scored
C7_Witness ==
  /\ pc = "returned" /\ use_na_fun /\ k = 2 /\ Len(table) >= 1
  /\ \E i \in Motifs : \E j \in Seqs : \E b \in 1..Len(out[i][j]) :
       /\ DirtyWindow(i, j, b)
       /\ j \in 1..Len(seq_ints) /\ seq_ints[j][b] = -1 /\ seq_vecs[j][b] = "C"

\* C8: for every k >= 1 and every sequence without an unrecognized
\* character, the two recoders give the same stream and the two scorers the
\* same score vector for every motif; so in a batch that another sequence
\* forces onto the sentinel-aware path, the stream and the score vectors of
\* the clean sequence are the ones of the strict path.
C8_CleanPathsAgree ==
  StreamsReady =>
    \A j \in Seqs : CleanSeq(j) =>
      LET e == EncodeSeq(seq_vecs[j], alph)
          rn == IF k > 1 THEN RecodeNA(e, k, Len(alph)) ELSE [val |-> e, oob |-> FALSE]
          rs == IF k > 1 THEN RecodeStrict(e, k, Len(alph)) ELSE [val |-> e, oob |-> FALSE]
      IN  /\ rn = rs
          /\ seq_ints[j] = rs.val
          /\ \A i \in Motifs :
               /\ scan_single_seq_NA(score2_mats[i], rn.val, k)
                    = scan_single_seq(score2_mats[i], rs.val, k)
               /\ Scored(i) => out[i][j] = scan_single_seq(score2_mats[i], rs.val, k).val

\* C8's case: k = 2, the sentinel-aware path, and a scored clean sequence
\* with a window
C8_Witness ==
  /\ use_na_fun /\ k = 2 /\ recoded = "NA"
  /\ \E i \in Motifs : \E j \in Seqs :
       Scored(i) /\ scoredBy[i] = "NA" /\ CleanSeq(j) /\ Len(out[i][j]) >= 1

\* C10: no scoring unit starts before every encoding unit has finished and
\* the flag is set; from then on the flag is the same in every state, true
\* exactly when some character of some sequence is outside the alphabet; the
\* notice is emitted at most once, and only with the flag set and warnNA; the
\* recoder and every scoring unit run the variant the flag names.
C10_OnePathPerCall ==
  LET variant == IF AnyUnrecognized THEN "NA" ELSE "strict"
  IN  /\ (\E i \in 1..Len(scoreSt) : scoreSt[i] # "idle") =>
           /\ \A j \in 1..Len(encSt) : encSt[j] = "done"
           /\ Len(encSt) = Len(seq_vecs)
           /\ pc \notin {"entry", "encode", "recode"}
      /\ pc \notin {"entry", "stopped", "encode"} => use_na_fun = AnyUnrecognized
      /\ pc \in {"entry", "stopped", "encode"} => ~use_na_fun /\ notices = 0
      /\ notices <= 1
      /\ notices = 1 <=> (use_na_fun /\ warnNA)
      /\ recoded # "none" => recoded = variant /\ k > 1
      /\ StreamsReady /\ k > 1 => recoded = variant
      /\ \A i \in 1..Len(scoredBy) : scoredBy[i] # "none" => scoredBy[i] = variant
      /\ \A i \in 1..Len(scoreSt) : scoreSt[i] = "done" => scoredBy[i] = variant

\* C10's case: a returned call of two sequences, the second with an
\* unrecognized character, k = 2, the notice emitted
C10_Witness ==
  /\ pc = "returned" /\ k = 2 /\ Len(seq_vecs) = 2 /\ Len(score_mats) = 2
  /\ na_index = <<0, 1>> /\ use_na_fun /\ notices = 1
  /\ recoded = "NA" /\ scoredBy = <<"NA", "NA">>

\* the call breaks the caller's contract
ContractViolated == Len(min_scores) # Len(score_mats) \/ k <= 0 \/ Len(alph) = 0

\* C4 as stated: a call with a number of thresholds other than the number of
\* matrices, a k that is not positive or an empty alphabet ends in a fatal
\* error before any parallel work is dispatched: no unit ever starts and no
\* table is returned.
C4_AsStated ==
  ContractViolated =>
    /\ pc \in {"entry", "stopped"}
    /\ \A i \in 1..Len(encSt) : encSt[i] = "idle"
    /\ scoreSt = <<>>
    /\ table = <<>>

====
